---------------------------- MODULE Spec2Model ----------------------------
(***************************************************************************)
(* The notebook openmm_sims.ipynb as a state machine.                      *)
(*                                                                         *)
(* The notebook is a linear script: its code cells, executed in document   *)
(* order, drive one OpenMM Simulation per molecule (ethane, then butane)   *)
(* through minimization, equilibration and production, and then analyse    *)
(* the trajectory file with MDTraj.  The state is the Python namespace of  *)
(* the kernel (pdb, forcefield, system, integrator, simulation, st, traj,  *)
(* bond_indices, bond_length, phi_indices), the console output, and the    *)
(* trajectory files on disk.  Program lists the statements with the line   *)
(* each comes from; there is one action per kind of statement.             *)
(*                                                                         *)
(* Units: simulated time is counted in femtoseconds, potential energy in   *)
(* micro-kJ/mol (the recorded values rounded to six decimals), temperature *)
(* in hundredths of a kelvin.  Simulated time is the nominal time: the     *)
(* number of steps taken times the integrator's step size.                 *)
(***************************************************************************)
EXTENDS Integers, Sequences, FiniteSets, TLC

(***************************************************************************)
(* Literals of the notebook.                                               *)
(***************************************************************************)
TimestepFs == 2
TemperatureCK == 29815
FrictionPerPs == 5
MinimizeMaxIterations == 100

EthaneEquilInterval == 100
EthaneEquilVelocityCK == 15000
EthaneEquilSteps == 2500
EthaneProdInterval == 250000
EthaneDcdInterval == 100
EthaneProdSteps == 10000000

ButaneEquilInterval == 250
ButaneEquilVelocityCK == 29800
ButaneEquilSteps == 5000
ButaneProdInterval == 500000
ButaneDcdInterval == 100
ButaneProdSteps == 20000000

AnalysisDcdInterval == 100

Molecules == {"ethane", "butane"}
FileNames == {"ethane_sim.dcd", "butane_sim.dcd"}

\* StateDataReporter(stdout, interval, step=True, potentialEnergy=True,
\* temperature=True, separator=','): the equilibration reporter's flags.
EquilFlags ==
  [step |-> TRUE, time |-> FALSE, potentialEnergy |-> TRUE,
   temperature |-> TRUE, speed |-> FALSE]

\* StateDataReporter(stdout, interval, step=True, time=True,
\* potentialEnergy=True, temperature=True, speed=True, separator=','): the
\* production reporter's flags.
ProdFlags ==
  [step |-> TRUE, time |-> TRUE, potentialEnergy |-> TRUE,
   temperature |-> TRUE, speed |-> TRUE]

NoFlags ==
  [step |-> FALSE, time |-> FALSE, potentialEnergy |-> FALSE,
   temperature |-> FALSE, speed |-> FALSE]

\* One statement of the notebook: the operation, the line it is on, and its
\* literal arguments.
Stmt(op, line, name, n, flags) ==
  [op |-> op, line |-> line, name |-> name, n |-> n, flags |-> flags]

\* The statements of the three ethane cells that set the simulation up.
EthaneSetup ==
  << Stmt("import", 52, "openmm", 0, NoFlags),
     Stmt("PDBFile", 71, "ethane", 0, NoFlags),
     Stmt("ForceField", 72, "ethane", 0, NoFlags),
     Stmt("createSystem", 112, "", 0, NoFlags),
     Stmt("LangevinIntegrator", 128, "", TimestepFs, NoFlags),
     Stmt("Simulation", 157, "Reference", 0, NoFlags),
     Stmt("setPositions", 158, "", 0, NoFlags) >>

\* The ethane minimization cell.
EthaneMinimize ==
  << Stmt("print", 192, "Minimizing...", 0, NoFlags),
     Stmt("getState", 194, "before", 0, NoFlags),
     Stmt("minimizeEnergy", 197, "", MinimizeMaxIterations, NoFlags),
     Stmt("getState", 199, "after", 0, NoFlags) >>

\* The ethane equilibration cell.
EthaneEquilibrate ==
  << Stmt("print", 278, "Equilibrating...", 0, NoFlags),
     Stmt("StateDataReporter", 280, "stdout", EthaneEquilInterval, EquilFlags),
     Stmt("setVelocitiesToTemperature", 282, "", EthaneEquilVelocityCK, NoFlags),
     Stmt("step", 283, "", EthaneEquilSteps, NoFlags) >>

\* The ethane production cell.
EthaneProduction ==
  << Stmt("print", 369, "Running Production...", 0, NoFlags),
     Stmt("timer", 372, "tinit", 0, NoFlags),
     Stmt("clear", 375, "", 0, NoFlags),
     Stmt("StateDataReporter", 379, "stdout", EthaneProdInterval, ProdFlags),
     Stmt("DCDReporter", 385, "ethane_sim.dcd", EthaneDcdInterval, NoFlags),
     Stmt("step", 388, "", EthaneProdSteps, NoFlags),
     Stmt("timer", 391, "tfinal", 0, NoFlags),
     Stmt("print", 392, "Done!", 0, NoFlags),
     Stmt("print", 393, "Time required for simulation:", 0, NoFlags) >>

\* The butane cell: the whole pipeline in one cell.
ButanePipeline ==
  << Stmt("PDBFile", 507, "butane", 0, NoFlags),
     Stmt("ForceField", 508, "butane", 0, NoFlags),
     Stmt("createSystem", 510, "", 0, NoFlags),
     Stmt("LangevinIntegrator", 512, "", TimestepFs, NoFlags),
     Stmt("Simulation", 516, "Reference", 0, NoFlags),
     Stmt("setPositions", 517, "", 0, NoFlags),
     Stmt("print", 519, "Minimizing...", 0, NoFlags),
     Stmt("getState", 521, "before", 0, NoFlags),
     Stmt("minimizeEnergy", 524, "", MinimizeMaxIterations, NoFlags),
     Stmt("getState", 526, "after", 0, NoFlags),
     Stmt("print", 531, "Equilibrating...", 0, NoFlags),
     Stmt("StateDataReporter", 534, "stdout", ButaneEquilInterval, EquilFlags),
     Stmt("setVelocitiesToTemperature", 536, "", ButaneEquilVelocityCK, NoFlags),
     Stmt("step", 539, "", ButaneEquilSteps, NoFlags),
     Stmt("print", 541, "Running Production...", 0, NoFlags),
     Stmt("timer", 544, "tinit", 0, NoFlags),
     Stmt("clear", 547, "", 0, NoFlags),
     Stmt("StateDataReporter", 551, "stdout", ButaneProdInterval, ProdFlags),
     Stmt("DCDReporter", 557, "butane_sim.dcd", ButaneDcdInterval, NoFlags),
     Stmt("step", 560, "", ButaneProdSteps, NoFlags),
     Stmt("timer", 563, "tfinal", 0, NoFlags),
     Stmt("print", 564, "Done!", 0, NoFlags),
     Stmt("print", 565, "Time required for simulation:", 0, NoFlags) >>

\* The analysis cells.  The first one repeats the production cell's
\* DCDReporter line; the text above it says it need not be executed.  The
\* conda cell and the torsion cell are not Python: they raise SyntaxError.
Analysis ==
  << Stmt("DCDReporter", 593, "ethane_sim.dcd", AnalysisDcdInterval, NoFlags),
     Stmt("SyntaxError", 613, "$ conda install -c conda-forge mdtraj nglview", 0, NoFlags),
     Stmt("load", 624, "ethane_sim.dcd", 0, NoFlags),
     Stmt("show_mdtraj", 642, "", 0, NoFlags),
     Stmt("to_dataframe", 661, "", 0, NoFlags),
     Stmt("bond_indices", 692, "", 0, NoFlags),
     Stmt("compute_distances", 693, "", 0, NoFlags),
     Stmt("hist", 711, "C-C bond length histogram", 120, NoFlags),
     Stmt("SyntaxError", 735, "phi = # use the compute_dihedrals function", 0, NoFlags),
     Stmt("import", 755, "matplotlib.pyplot", 0, NoFlags) >>

\* A faulty variant of Program: the ethane equilibration cell is run before
\* the minimization cell.
ProgramOutOfOrder ==
  EthaneSetup \o EthaneEquilibrate \o EthaneMinimize \o EthaneProduction
    \o ButanePipeline \o Analysis

\* The code cells in document order.
Program ==
  EthaneSetup \o EthaneMinimize \o EthaneEquilibrate \o EthaneProduction
    \o ButanePipeline \o Analysis

\* The line of the cell the text calls optional ("you do not need to execute it").
OptionalLines == {593}

VARIABLES
  pc,            \* index in Program of the next statement
  pdb,           \* the molecule of the loaded structure file, or "none"
  forcefield,    \* the molecule of the loaded force-field file, or "none"
  system,        \* the System: the topology and force field it was built from
  integrator,    \* the LangevinIntegrator's parameters
  simulation,    \* the Simulation object bound to the name simulation
  endStep,       \* inside simulation.step(n): the step to stop at; -1 outside
  st,            \* the potential energy of the State last read; -1 when unbound
  stdout,        \* the console lines printed so far
  files,         \* the trajectory files on disk
  traj,          \* the MDTraj trajectory bound to the name traj
  atoms,         \* the number of rows of the atoms table; -1 when unbound
  bond_indices,  \* the list bound to bond_indices
  bond_length,   \* the shape of the array bound to bond_length
  phi_indices,   \* the list bound to phi_indices
  timer,         \* the timer readings taken so far: tinit, tfinal
  attached,      \* per file, the simulations a DCDReporter on it was appended to
  written,       \* per file, the frames ever written to it, per simulation
  history,       \* per molecule, the operations completed on it, in order
  calls,         \* per line of the notebook, the times its statement was called
  raised         \* the butane cell's statement that raised, and the step then

vars ==
  << pc, pdb, forcefield, system, integrator, simulation, endStep, st, stdout,
     files, traj, atoms, bond_indices, bond_length, phi_indices, timer,
     attached, written, history, calls, raised >>

(***************************************************************************)
(* The objects of the namespace.                                           *)
(***************************************************************************)
NoSystem == [topology |-> "none", forcefield |-> "none",
             nonbondedMethod |-> "none", constraints |-> "none"]

NoIntegrator == [temperature |-> 0, friction |-> 0, timestep |-> 0,
                 constraintTolerance |-> "default"]

\* No Simulation is bound to the name yet.
NoSimulation ==
  [topology |-> "none", system |-> NoSystem, integrator |-> NoIntegrator,
   platform |-> "none", positions |-> "none", velocities |-> -1,
   currentStep |-> 0, time |-> 0, reporters |-> << >>]

\* A file that does not exist yet.
NoFile == [exists |-> FALSE, frames |-> 0, topology |-> "none", lastStep |-> -1]

NoTraj == [bound |-> FALSE, frames |-> 0, topology |-> "none"]

NoArray == [bound |-> FALSE, frames |-> 0, pairs |-> 0]

\* A Python list name that is not bound.
Unbound == [bound |-> FALSE, items |-> << >>]

\* The list a name is bound to.
List(items) == [bound |-> TRUE, items |-> items]

Running == pc \in 1..Len(Program)

\* The lines of the notebook that hold a statement.
Lines == {Program[i].line : i \in DOMAIN Program}

\* No statement of the butane cell has raised.
NotRaised == [line |-> 0, currentStep |-> 0]

\* The statement about to run.
Cur == Program[pc]

\* A console line, with the line of the statement that printed it (the
\* notebook shows it under that statement's cell).  A data line of a StateDataReporter carries the columns
\* it has values for, the step, and the time when the time column is on;
\* the potential energy and temperature it prints are the integrator's
\* random draws and are not tracked.
Line(kind, text, cols, step, time, energy) ==
  [at |-> Cur.line, kind |-> kind, text |-> text, cols |-> cols,
   step |-> step, time |-> time, energy |-> energy]

Text(text) == Line("text", text, << >>, -1, -1, -1)

(***************************************************************************)
(* The engine's operations, as the notebook uses them.                     *)
(***************************************************************************)
\* The number of atoms of a molecule's topology: C2H6 and C4H10.
NumAtoms(mol) == IF mol = "ethane" THEN 8 ELSE IF mol = "butane" THEN 14 ELSE 0

\* A faulty variant of PotentialEnergy: the two readings of each molecule
\* swapped, as if the minimizer climbed.
PotentialEnergySwapped(mol, positions) ==
  CASE mol = "ethane" /\ positions = "pdb" -> 4389968
    [] mol = "ethane" /\ positions = "minimized" -> 4467818
    [] mol = "butane" /\ positions = "pdb" -> 5295784
    [] mol = "butane" /\ positions = "minimized" -> 5797529

\* The potential energy of a molecule at the positions of its structure file
\* and at the positions the minimizer reaches from them.  The Reference
\* platform's minimizer draws no random numbers, so these are the values the
\* cells print; they are the recorded outputs.
PotentialEnergy(mol, positions) ==
  CASE mol = "ethane" /\ positions = "pdb" -> 4467818
    [] mol = "ethane" /\ positions = "minimized" -> 4389968
    [] mol = "butane" /\ positions = "pdb" -> 5797529
    [] mol = "butane" /\ positions = "minimized" -> 5295784

\* StateDataReporter's header: one column per flag that is on, in the
\* reporter's fixed order.
Columns(flags) ==
  (IF flags.step THEN << "Step" >> ELSE << >>)
    \o (IF flags.time THEN << "Time (ps)" >> ELSE << >>)
    \o (IF flags.potentialEnergy THEN << "Potential Energy (kJ/mole)" >> ELSE << >>)
    \o (IF flags.temperature THEN << "Temperature (K)" >> ELSE << >>)
    \o (IF flags.speed THEN << "Speed (ns/day)" >> ELSE << >>)

\* A reporter object: a StateDataReporter on the console or a DCDReporter on
\* a file.  initialized: the header has been written.
Reporter(kind, file, interval, flags) ==
  [kind |-> kind, file |-> file, interval |-> interval, flags |-> flags,
   initialized |-> FALSE]

Init ==
  /\ pc = 1
  /\ pdb = "none"
  /\ forcefield = "none"
  /\ system = NoSystem
  /\ integrator = NoIntegrator
  /\ simulation = NoSimulation
  /\ endStep = -1
  /\ st = -1
  /\ stdout = << >>
  /\ files = [f \in FileNames |-> NoFile]
  /\ traj = NoTraj
  /\ atoms = -1
  /\ bond_indices = Unbound
  /\ bond_length = NoArray
  /\ phi_indices = Unbound
  /\ timer = << >>
  /\ attached = [f \in FileNames |-> {}]
  /\ written = [f \in FileNames |-> [m \in Molecules |-> 0]]
  /\ history = [m \in Molecules |-> << >>]
  /\ calls = [l \in Lines |-> 0]
  /\ raised = NotRaised

\* The statement about to run is called once more.
Call ==
  calls' = [calls EXCEPT ![Cur.line] = @ + 1]

\* The molecule op is logged under has one more completed operation.
Log(mol, op) ==
  history' = [history EXCEPT ![mol] = Append(@, op)]


(***************************************************************************)
(* Setting a simulation up.                                                *)
(***************************************************************************)
\* import ...: binds module names only.
Import ==
  /\ Running /\ Cur.op = "import"
  /\ pc' = pc + 1
  /\ Call
  /\ UNCHANGED << raised, pdb, forcefield, system, integrator, simulation, endStep, st,
                  stdout, files, traj, atoms, bond_indices, bond_length,
                  phi_indices, timer, attached, written, history >>

\* pdb = app.PDBFile('data/<molecule>.pdb')
PDBFile ==
  /\ Running /\ Cur.op = "PDBFile"
  /\ pdb' = Cur.name
  /\ Log(Cur.name, "PDBFile")
  /\ pc' = pc + 1
  /\ Call
  /\ UNCHANGED << raised, forcefield, system, integrator, simulation, endStep, st,
                  stdout, files, traj, atoms, bond_indices, bond_length,
                  phi_indices, timer, attached, written >>

\* A faulty variant of ForceField: the file name is not changed with the
\* molecule, every cell loads ethane.gaff2.xml.
ForceFieldOfEthane ==
  /\ Running /\ Cur.op = "ForceField"
  /\ forcefield' = "ethane"
  /\ Log("ethane", "ForceField")
  /\ pc' = pc + 1
  /\ Call
  /\ UNCHANGED << raised, pdb, system, integrator, simulation, endStep, st,
                  stdout, files, traj, atoms, bond_indices, bond_length,
                  phi_indices, timer, attached, written >>

\* forcefield = app.ForceField('data/<molecule>.gaff2.xml')
ForceField ==
  /\ Running /\ Cur.op = "ForceField"
  /\ forcefield' = Cur.name
  /\ Log(Cur.name, "ForceField")
  /\ pc' = pc + 1
  /\ Call
  /\ UNCHANGED << raised, pdb, system, integrator, simulation, endStep, st, stdout,
                  files, traj, atoms, bond_indices, bond_length, phi_indices,
                  timer, attached, written >>

\* system = forcefield.createSystem(pdb.topology, nonbondedMethod=app.NoCutoff,
\*                                  constraints=app.HBonds)
createSystem ==
  /\ Running /\ Cur.op = "createSystem"
  /\ system' = [topology |-> pdb, forcefield |-> forcefield,
                nonbondedMethod |-> "NoCutoff", constraints |-> "HBonds"]
  /\ Log(pdb, "createSystem")
  /\ pc' = pc + 1
  /\ Call
  /\ UNCHANGED << raised, pdb, forcefield, integrator, simulation, endStep, st, stdout,
                  files, traj, atoms, bond_indices, bond_length, phi_indices,
                  timer, attached, written >>

\* integrator = mm.LangevinIntegrator(298.15*unit.kelvin, 5.0/unit.picoseconds,
\*                                    2.0*unit.femtoseconds)
\* integrator.setConstraintTolerance(1e-5)
LangevinIntegrator ==
  /\ Running /\ Cur.op = "LangevinIntegrator"
  /\ integrator' = [temperature |-> TemperatureCK, friction |-> FrictionPerPs,
                    timestep |-> Cur.n, constraintTolerance |-> "1e-5"]
  /\ Log(pdb, "LangevinIntegrator")
  /\ pc' = pc + 1
  /\ Call
  /\ UNCHANGED << raised, pdb, forcefield, system, simulation, endStep, st, stdout,
                  files, traj, atoms, bond_indices, bond_length, phi_indices,
                  timer, attached, written >>

\* platform = mm.Platform.getPlatformByName('Reference')
\* simulation = app.Simulation(pdb.topology, system, integrator, platform)
\* A new Simulation starts at step 0 and time 0 with no reporters; the one the
\* name was bound to before is dropped.
Simulation ==
  /\ Running /\ Cur.op = "Simulation"
  /\ simulation' = [topology |-> pdb, system |-> system,
                    integrator |-> integrator, platform |-> Cur.name,
                    positions |-> "none", velocities |-> -1,
                    currentStep |-> 0, time |-> 0, reporters |-> << >>]
  /\ Log(pdb, "Simulation")
  /\ pc' = pc + 1
  /\ Call
  /\ UNCHANGED << raised, pdb, forcefield, system, integrator, endStep, st, stdout,
                  files, traj, atoms, bond_indices, bond_length, phi_indices,
                  timer, attached, written >>

\* simulation.context.setPositions(pdb.positions)
setPositions ==
  /\ Running /\ Cur.op = "setPositions"
  /\ simulation' = [simulation EXCEPT !.positions = "pdb"]
  /\ Log(simulation.topology, "setPositions")
  /\ pc' = pc + 1
  /\ Call
  /\ UNCHANGED << raised, pdb, forcefield, system, integrator, endStep, st, stdout,
                  files, traj, atoms, bond_indices, bond_length, phi_indices,
                  timer, attached, written >>

(***************************************************************************)
(* Minimization.                                                           *)
(***************************************************************************)
\* print('...')
PrintText ==
  /\ Running /\ Cur.op = "print"
  /\ stdout' = Append(stdout, Text(Cur.name))
  /\ pc' = pc + 1
  /\ Call
  /\ UNCHANGED << raised, pdb, forcefield, system, integrator, simulation, endStep, st,
                  files, traj, atoms, bond_indices, bond_length, phi_indices,
                  timer, attached, written, history >>

\* st = simulation.context.getState(getPositions=True, getEnergy=True)
\* print(F"Potential energy <before|after> minimization is {st.getPotentialEnergy()}")
getState ==
  /\ Running /\ Cur.op = "getState"
  /\ st' = PotentialEnergy(simulation.topology, simulation.positions)
  /\ stdout' = Append(stdout, Line("energy", Cur.name, << >>, -1, -1, st'))
  /\ Log(simulation.topology, "getState")
  /\ pc' = pc + 1
  /\ Call
  /\ UNCHANGED << raised, pdb, forcefield, system, integrator, simulation, endStep,
                  files, traj, atoms, bond_indices, bond_length, phi_indices,
                  timer, attached, written >>

\* simulation.minimizeEnergy(maxIterations=100): moves the positions to the
\* ones the minimizer reaches; the step counter and the time do not move and
\* no reporter is consulted.
minimizeEnergy ==
  /\ Running /\ Cur.op = "minimizeEnergy"
  /\ simulation' = [simulation EXCEPT !.positions = "minimized"]
  /\ Log(simulation.topology, "minimizeEnergy")
  /\ pc' = pc + 1
  /\ Call
  /\ UNCHANGED << raised, pdb, forcefield, system, integrator, endStep, st, stdout,
                  files, traj, atoms, bond_indices, bond_length, phi_indices,
                  timer, attached, written >>


(***************************************************************************)
(* Reporters.                                                              *)
(***************************************************************************)
\* simulation.reporters.append(app.StateDataReporter(stdout, interval, ...))
StateDataReporter ==
  /\ Running /\ Cur.op = "StateDataReporter"
  /\ simulation' =
       [simulation EXCEPT
          !.reporters = Append(@, Reporter("state", Cur.name, Cur.n, Cur.flags))]
  /\ Log(simulation.topology, "StateDataReporter")
  /\ pc' = pc + 1
  /\ Call
  /\ UNCHANGED << raised, pdb, forcefield, system, integrator, endStep, st, stdout,
                  files, traj, atoms, bond_indices, bond_length, phi_indices,
                  timer, attached, written >>

\* The file a DCDReporter has just been constructed on: DCDReporter opens it
\* for writing, so it exists and is empty whatever it held before.
Opened == [exists |-> TRUE, frames |-> 0, topology |-> "none", lastStep |-> -1]

\* simulation.reporters.append(app.DCDReporter('<file>', interval)): the
\* reporter is appended to whichever Simulation the name is bound to now.
DCDReporter ==
  /\ Running /\ Cur.op = "DCDReporter"
  /\ files' = [files EXCEPT ![Cur.name] = Opened]
  /\ attached' = [attached EXCEPT ![Cur.name] = @ \cup {simulation.topology}]
  /\ simulation' =
       [simulation EXCEPT
          !.reporters = Append(@, Reporter("dcd", Cur.name, Cur.n, NoFlags))]
  /\ Log(simulation.topology, "DCDReporter")
  /\ pc' = pc + 1
  /\ Call
  /\ UNCHANGED << raised, pdb, forcefield, system, integrator, endStep, st, stdout,
                  traj, atoms, bond_indices, bond_length, phi_indices, timer,
                  written >>

\* The cell the text calls optional is left out.
SkipOptional ==
  /\ Running /\ Cur.line \in OptionalLines
  /\ pc' = pc + 1
  /\ UNCHANGED << calls, raised, pdb, forcefield, system, integrator, simulation, endStep, st,
                  stdout, files, traj, atoms, bond_indices, bond_length,
                  phi_indices, timer, attached, written, history >>

\* A faulty variant of clear: the reporter list is left as it is.
clearNothing ==
  /\ Running /\ Cur.op = "clear"
  /\ Log(simulation.topology, "clear")
  /\ pc' = pc + 1
  /\ Call
  /\ UNCHANGED << raised, pdb, forcefield, system, integrator, simulation,
                  endStep, st, stdout, files, traj, atoms, bond_indices,
                  bond_length, phi_indices, timer, attached, written >>

\* simulation.reporters.clear()
clear ==
  /\ Running /\ Cur.op = "clear"
  /\ simulation' = [simulation EXCEPT !.reporters = << >>]
  /\ Log(simulation.topology, "clear")
  /\ pc' = pc + 1
  /\ Call
  /\ UNCHANGED << raised, pdb, forcefield, system, integrator, endStep, st, stdout,
                  files, traj, atoms, bond_indices, bond_length, phi_indices,
                  timer, attached, written >>

\* simulation.context.setVelocitiesToTemperature(T*unit.kelvin)
setVelocitiesToTemperature ==
  /\ Running /\ Cur.op = "setVelocitiesToTemperature"
  /\ simulation' = [simulation EXCEPT !.velocities = Cur.n]
  /\ Log(simulation.topology, "setVelocitiesToTemperature")
  /\ pc' = pc + 1
  /\ Call
  /\ UNCHANGED << raised, pdb, forcefield, system, integrator, endStep, st, stdout,
                  files, traj, atoms, bond_indices, bond_length, phi_indices,
                  timer, attached, written >>

\* tinit = time.time() / tfinal = time.time()
Timer ==
  /\ Running /\ Cur.op = "timer"
  /\ timer' = Append(timer, Cur.name)
  /\ pc' = pc + 1
  /\ Call
  /\ UNCHANGED << raised, pdb, forcefield, system, integrator, simulation, endStep, st,
                  stdout, files, traj, atoms, bond_indices, bond_length,
                  phi_indices, attached, written, history >>

(***************************************************************************)
(* simulation.step(n).  The Simulation advances the integrator from report *)
(* to report: each round it asks every reporter how many steps remain      *)
(* until its next report, takes the smallest of these and of the steps     *)
(* left, and then lets the reporters that asked for exactly that many      *)
(* steps report.  StepChunk is the run of rounds up to the next console    *)
(* report (or to the end of the call): the rounds in between are the ones  *)
(* in which only trajectory reporters report, and their frames are counted *)
(* in closed form.                                                         *)
(***************************************************************************)
Min(S) == CHOOSE x \in S : \A y \in S : x <= y

\* A faulty variant of NextReport: the interval is counted from the step the
\* reporter is asked at, not from step 0.
NextReportFromNow(r, currentStep) == r.interval

\* A faulty variant of NextReport: the reporter asks for one step too many.
NextReportOffByOne(r, currentStep) ==
  r.interval - (currentStep % r.interval) + 1

\* The steps until reporter r reports next: it reports at the steps that are
\* multiples of its interval.
NextReport(r, currentStep) == r.interval - (currentStep % r.interval)

\* A faulty variant of TimeAfter: the last step's time is not counted.
TimeAfterOneStepShort(time, n, stepSize) == time + (n - 1) * stepSize

\* The simulated time after n more steps of the integrator.
TimeAfter(time, n, stepSize) == time + n * stepSize

\* A faulty variant of NextSteps: the loop does not stop for the reporters.
NextStepsToEnd(reporters, currentStep, end) == end - currentStep

\* The steps up to the next console report, or to the end of the call.
NextSteps(reporters, currentStep, end) ==
  LET remaining == end - currentStep
      asked == { NextReport(reporters[i], currentStep) :
                   i \in { j \in DOMAIN reporters : reporters[j].kind = "state" } }
  IN  Min({remaining} \cup { d \in asked : d > 0 /\ d <= remaining })

\* The console reporters that report after the Simulation has taken n steps.
Due(reporters, currentStep, n) ==
  { i \in DOMAIN reporters :
      reporters[i].kind = "state" /\ NextReport(reporters[i], currentStep) = n }

\* What a StateDataReporter prints for a report: the header the first time,
\* then one line of values.
StateReport(r, step, time) ==
  (IF r.initialized THEN << >>
   ELSE << Line("header", "", Columns(r.flags), -1, -1, -1) >>)
    \o << Line("data", "", Columns(r.flags), step,
               IF r.flags.time THEN time ELSE -1, -1) >>

RECURSIVE ConsoleReports(_, _, _, _, _)
\* The console lines of the due StateDataReporters from position i on, in the
\* order of the reporter list.
ConsoleReports(reporters, due, i, step, time) ==
  IF i > Len(reporters) THEN << >>
  ELSE (IF i \in due THEN StateReport(reporters[i], step, time) ELSE << >>)
         \o ConsoleReports(reporters, due, i + 1, step, time)

\* A faulty variant of ReportsIn: the first report of the run is lost.
ReportsInWithoutFirst(r, currentStep, n) ==
  LET first == NextReport(r, currentStep)
  IN  IF first > n THEN 0 ELSE (n - first) \div r.interval

\* The reports reporter r makes while the Simulation takes n steps from
\* currentStep: the first after NextReport steps, then one every interval.
ReportsIn(r, currentStep, n) ==
  LET first == NextReport(r, currentStep)
  IN  IF first > n THEN 0 ELSE 1 + ((n - first) \div r.interval)

\* A faulty variant of LastReportIn: the step of the first of them.
FirstReportIn(r, currentStep, n) == currentStep + NextReport(r, currentStep)

\* The step of the last of these reports.
LastReportIn(r, currentStep, n) ==
  currentStep + NextReport(r, currentStep)
    + (ReportsIn(r, currentStep, n) - 1) * r.interval

RECURSIVE FramesWritten(_, _, _, _, _, _)
\* A trajectory file after the DCDReporters on it, from position i of the
\* reporter list on, have written one frame of the simulation's positions
\* per report.
FramesWritten(file, name, reporters, i, currentStep, n) ==
  IF i > Len(reporters) THEN file
  ELSE LET r == reporters[i]
           k == IF r.kind = "dcd" /\ r.file = name
                THEN ReportsIn(r, currentStep, n) ELSE 0
           appended ==
             IF k = 0 THEN file
             ELSE [file EXCEPT !.frames = @ + k,
                               !.lastStep = LastReportIn(r, currentStep, n)]
       IN  FramesWritten(appended, name, reporters, i + 1, currentStep, n)

\* Whether reporter i reports while the Simulation takes n steps.
Reports(reporters, i, currentStep, n) ==
  ReportsIn(reporters[i], currentStep, n) > 0

\* A faulty variant of StepCall: n is taken as the step to stop at, as if
\* the run started at step 0.
StepCallFromZero ==
  /\ Running /\ Cur.op = "step" /\ endStep = -1
  /\ endStep' = Cur.n
  /\ Call
  /\ UNCHANGED << raised, pc, pdb, forcefield, system, integrator, simulation,
                  st, stdout, files, traj, atoms, bond_indices, bond_length,
                  phi_indices, timer, attached, written, history >>

\* simulation.step(n) is entered: it will stop at currentStep + n.
StepCall ==
  /\ Running /\ Cur.op = "step" /\ endStep = -1
  /\ endStep' = simulation.currentStep + Cur.n
  /\ Call
  /\ UNCHANGED << raised, pc, pdb, forcefield, system, integrator, simulation, st,
                  stdout, files, traj, atoms, bond_indices, bond_length,
                  phi_indices, timer, attached, written, history >>

\* The rounds of the loop of simulation.step(n) up to the next console report.
StepChunk ==
  /\ Running /\ Cur.op = "step" /\ endStep # -1
  /\ simulation.currentStep < endStep
  /\ LET reps == simulation.reporters
         cur == simulation.currentStep
         n == NextSteps(reps, cur, endStep)
         due == Due(reps, cur, n)
         step == cur + n
         time == TimeAfter(simulation.time, n, simulation.integrator.timestep)
     IN  /\ simulation' =
              [simulation EXCEPT
                 !.currentStep = step,
                 !.time = time,
                 !.positions = "dynamics",
                 !.reporters =
                    [i \in DOMAIN reps |->
                       IF Reports(reps, i, cur, n)
                       THEN [reps[i] EXCEPT !.initialized = TRUE]
                       ELSE reps[i]]]
         /\ stdout' = stdout \o ConsoleReports(reps, due, 1, step, time)
         /\ files' =
              [f \in FileNames |->
                 LET after == FramesWritten(files[f], f, reps, 1, cur, n)
                 IN  IF after.frames = files[f].frames THEN files[f]
                     ELSE [after EXCEPT !.topology = simulation.topology]]
         /\ written' =
              [f \in FileNames |->
                 [written[f] EXCEPT
                    ![simulation.topology] =
                       @ + FramesWritten(files[f], f, reps, 1, cur, n).frames
                         - files[f].frames]]
  /\ UNCHANGED << calls, raised, pc, pdb, forcefield, system, integrator, endStep, st, traj,
                  atoms, bond_indices, bond_length, phi_indices, timer,
                  attached, history >>

\* simulation.step(n) returns.
StepReturn ==
  /\ Running /\ Cur.op = "step" /\ endStep # -1
  /\ simulation.currentStep >= endStep
  /\ endStep' = -1
  /\ Log(simulation.topology, "step")
  /\ pc' = pc + 1
  /\ UNCHANGED << calls, raised, pdb, forcefield, system, integrator, simulation, st, stdout,
                  files, traj, atoms, bond_indices, bond_length, phi_indices,
                  timer, attached, written >>


(***************************************************************************)
(* Analysis.                                                               *)
(***************************************************************************)
\* A statement raised: the traceback is printed and nothing is bound.
Raised(what) == Line("error", what, << >>, -1, -1, -1)

\* A cell that is not Python raises SyntaxError before any of it runs.
SyntaxError ==
  /\ Running /\ Cur.op = "SyntaxError"
  /\ stdout' = Append(stdout, Raised("SyntaxError"))
  /\ pc' = pc + 1
  /\ Call
  /\ UNCHANGED << raised, pdb, forcefield, system, integrator, simulation, endStep, st,
                  files, traj, atoms, bond_indices, bond_length, phi_indices,
                  timer, attached, written, history >>

\* The trajectory md.load reads from a file with the ethane topology: the
\* frames the file holds.  A file that is missing, holds no frame, or holds
\* frames of another topology cannot be read.
Readable(file, top) ==
  file.exists /\ file.frames > 0 /\ file.topology = top

\* traj = md.load('ethane_sim.dcd', top='data/ethane.pdb')
load ==
  /\ Running /\ Cur.op = "load"
  /\ IF Readable(files[Cur.name], "ethane")
     THEN /\ traj' = [bound |-> TRUE, frames |-> files[Cur.name].frames,
                      topology |-> "ethane"]
          /\ UNCHANGED stdout
     ELSE /\ stdout' = Append(stdout, Raised("OSError"))
          /\ UNCHANGED traj
  /\ Log("ethane", "load")
  /\ pc' = pc + 1
  /\ Call
  /\ UNCHANGED << raised, pdb, forcefield, system, integrator, simulation, endStep, st,
                  files, atoms, bond_indices, bond_length, phi_indices, timer,
                  attached, written >>

\* visualize = ngl.show_mdtraj(traj)
show_mdtraj ==
  /\ Running /\ Cur.op = "show_mdtraj"
  /\ stdout' = IF traj.bound THEN stdout ELSE Append(stdout, Raised("NameError"))
  /\ pc' = pc + 1
  /\ Call
  /\ UNCHANGED << raised, pdb, forcefield, system, integrator, simulation, endStep, st,
                  files, traj, atoms, bond_indices, bond_length, phi_indices,
                  timer, attached, written, history >>

\* atoms, bonds = traj.topology.to_dataframe()
to_dataframe ==
  /\ Running /\ Cur.op = "to_dataframe"
  /\ IF traj.bound
     THEN atoms' = NumAtoms(traj.topology) /\ UNCHANGED stdout
     ELSE stdout' = Append(stdout, Raised("NameError")) /\ UNCHANGED atoms
  /\ pc' = pc + 1
  /\ Call
  /\ UNCHANGED << raised, pdb, forcefield, system, integrator, simulation, endStep, st,
                  files, traj, bond_indices, bond_length, phi_indices, timer,
                  attached, written, history >>

\* bond_indices = [0, 4]
BondIndices ==
  /\ Running /\ Cur.op = "bond_indices"
  /\ bond_indices' = List(<< 0, 4 >>)
  /\ pc' = pc + 1
  /\ Call
  /\ UNCHANGED << raised, pdb, forcefield, system, integrator, simulation, endStep, st,
                  stdout, files, traj, atoms, bond_length, phi_indices, timer,
                  attached, written, history >>

\* bond_length = md.compute_distances(traj, [bond_indices]): an array with one
\* row per frame of traj and one column per pair.
compute_distances ==
  /\ Running /\ Cur.op = "compute_distances"
  /\ IF traj.bound
     THEN /\ bond_length' = [bound |-> TRUE, frames |-> traj.frames,
                             pairs |-> Len(<< bond_indices.items >>)]
          /\ UNCHANGED stdout
     ELSE /\ stdout' = Append(stdout, Raised("NameError"))
          /\ UNCHANGED bond_length
  /\ pc' = pc + 1
  /\ Call
  /\ UNCHANGED << raised, pdb, forcefield, system, integrator, simulation, endStep, st,
                  files, traj, atoms, bond_indices, phi_indices, timer,
                  attached, written, history >>

\* bondcounts, binedges, otherstuff = plt.hist(bond_length, bins=120) ...
hist ==
  /\ Running /\ Cur.op = "hist"
  /\ stdout' = IF bond_length.bound THEN stdout
               ELSE Append(stdout, Raised("NameError"))
  /\ pc' = pc + 1
  /\ Call
  /\ UNCHANGED << raised, pdb, forcefield, system, integrator, simulation, endStep, st,
                  files, traj, atoms, bond_indices, bond_length, phi_indices,
                  timer, attached, written, history >>

(***************************************************************************)
(* The notebook.                                                           *)
(***************************************************************************)
Next ==
  \/ Import
  \/ PDBFile
  \/ ForceField
  \/ createSystem
  \/ LangevinIntegrator
  \/ Simulation
  \/ setPositions
  \/ PrintText
  \/ getState
  \/ minimizeEnergy
  \/ StateDataReporter
  \/ DCDReporter
  \/ SkipOptional
  \/ clear
  \/ setVelocitiesToTemperature
  \/ Timer
  \/ StepCall
  \/ StepChunk
  \/ StepReturn
  \/ SyntaxError
  \/ load
  \/ show_mdtraj
  \/ to_dataframe
  \/ BondIndices
  \/ compute_distances
  \/ hist

Spec == Init /\ [][Next]_vars

Done == pc = Len(Program) + 1

(***************************************************************************)
(* The butane cell with calls that raise.                                  *)
(***************************************************************************)
\* The lines of the butane cell.
ButaneCell == 505..565

\* The statements that call into the engine: each can raise (a file that
\* cannot be read or written, a topology the force field has no template
\* for, coordinates that become NaN).  print, time.time() and list.clear()
\* do not.
ExternalCalls ==
  { "PDBFile", "ForceField", "createSystem", "LangevinIntegrator",
    "Simulation", "setPositions", "getState", "minimizeEnergy",
    "StateDataReporter", "DCDReporter", "setVelocitiesToTemperature", "step" }

\* A faulty variant of AfterCell: the exception is swallowed and the cell
\* goes on with its next statement.
AfterCellNextStatement(i) == i + 1

\* Where the notebook goes on after statement i of the butane cell raised:
\* the cell has no try/except, so the rest of it is skipped and the next
\* statement to run is the first one of the cell below.
AfterCell(i) ==
  Min({j \in i + 1 .. Len(Program) + 1 :
         j = Len(Program) + 1 \/ Program[j].line \notin ButaneCell})

\* A call of the butane cell raises.  The statement binds nothing and the
\* traceback is printed.  simulation.step(n) can raise on entry or after any
\* round of its loop; what the rounds before did stays done.
Raise ==
  /\ Running /\ Cur.line \in ButaneCell /\ Cur.op \in ExternalCalls
  /\ calls' = IF Cur.op = "step" /\ endStep # -1 THEN calls
              ELSE [calls EXCEPT ![Cur.line] = @ + 1]
  /\ raised' = [line |-> Cur.line, currentStep |-> simulation.currentStep]
  /\ stdout' = Append(stdout, Raised("Exception"))
  /\ endStep' = -1
  /\ pc' = AfterCell(pc)
  /\ UNCHANGED << pdb, forcefield, system, integrator, simulation, st, files,
                  traj, atoms, bond_indices, bond_length, phi_indices, timer,
                  attached, written, history >>

NextFail ==
  \/ Next
  \/ Raise

\* The notebook when calls of the butane cell may raise.
SpecFail == Init /\ [][NextFail]_vars

(***************************************************************************)
(* Properties.                                                             *)
(***************************************************************************)
\* The position in Program of the statement on a line of the notebook.
StmtAt(line) == CHOOSE i \in DOMAIN Program : Program[i].line = line

\* The statement on that line has been executed.
Executed(line) == pc > StmtAt(line)

\* simulation.step(n) on that line is in progress.
Stepping(line) == pc = StmtAt(line) /\ endStep # -1

\* The console lines of one kind printed by the statement on a line.
LinesAt(line, kind) ==
  SelectSeq(stdout, LAMBDA l : l.at = line /\ l.kind = kind)

EquilColumns ==
  << "Step", "Potential Energy (kJ/mole)", "Temperature (K)" >>

ProdColumns ==
  << "Step", "Time (ps)", "Potential Energy (kJ/mole)", "Temperature (K)",
     "Speed (ns/day)" >>

\* The potential energy printed after minimizeEnergy is at most the one
\* printed before it.
NotIncreased(beforeLine, afterLine) ==
  LET before == LinesAt(beforeLine, "energy")
      after == LinesAt(afterLine, "energy")
  IN  /\ Executed(beforeLine) => Len(before) = 1
      /\ Executed(afterLine) =>
           /\ Len(after) = 1
           /\ after[1].energy <= before[1].energy
      /\ pc = StmtAt(afterLine) + 1 => st = after[1].energy

ReportedEvery(line, interval, cols) ==
  LET L == LinesAt(line, "data")
  IN  /\ \A i \in 1..Len(L) : L[i].cols = cols /\ L[i].step = i * interval
      /\ Stepping(line) => Len(L) = simulation.currentStep \div interval
      /\ ~Executed(line) /\ ~Stepping(line) => Len(L) = 0

\* C2: during the ethane equilibration a console line with exactly the
\* fields Step, Potential Energy, Temperature is printed at every step that
\* is a multiple of 100 and at no other step: 25 lines, for the steps 100,
\* 200, ..., 2500, in increasing order.
C2_EthaneEquilibrationLines ==
  /\ ReportedEvery(283, 100, EquilColumns)
  /\ Len(LinesAt(283, "header")) <= 1
  /\ Executed(283) =>
       /\ Len(LinesAt(283, "data")) = 25
       /\ LinesAt(283, "data")[25].step = 2500

\* The ethane equilibration has returned with its 25 lines printed.
C2_Witness ==
  /\ pc = StmtAt(283) + 1
  /\ Len(LinesAt(283, "data")) = 25
  /\ simulation.currentStep = 2500

\* The data lines of a production run are one interval of steps apart.
OneIntervalApart(line, interval) ==
  LET L == LinesAt(line, "data")
  IN  \A i \in 2..Len(L) : L[i].step - L[i - 1].step = interval

\* C3: during each production run the console lines have exactly the fields
\* Step, Time, Potential Energy, Temperature, Speed and are printed at the
\* configured interval, every 250,000 steps for ethane and every 500,000
\* steps for butane; consecutive lines are exactly one interval apart.
C3_ProductionLines ==
  /\ ReportedEvery(388, 250000, ProdColumns)
  /\ ReportedEvery(560, 500000, ProdColumns)
  /\ OneIntervalApart(388, 250000)
  /\ OneIntervalApart(560, 500000)

\* Both production runs are over and each has printed several lines.
C3_Witness ==
  /\ Executed(388) /\ Executed(560)
  /\ Len(LinesAt(388, "data")) > 2
  /\ Len(LinesAt(560, "data")) > 2

\* The molecule a trajectory file is named after.
NamedAfter(file) == IF file = "ethane_sim.dcd" THEN "ethane" ELSE "butane"

\* C4: each trajectory file is written by one run only, the run of the
\* molecule it is named after: a trajectory reporter on ethane_sim.dcd has
\* only ever been appended to the ethane simulation and one on
\* butane_sim.dcd only to the butane simulation, and when md.load reads
\* ethane_sim.dcd the file still holds the frames the ethane production run
\* wrote.
C4_OneRunPerTrajectoryFile ==
  /\ \A f \in FileNames : attached[f] \subseteq {NamedAfter(f)}
  /\ \A f \in FileNames :
       \A m \in Molecules : m # NamedAfter(f) => written[f][m] = 0
  /\ Executed(624) =>
       /\ files["ethane_sim.dcd"].topology = "ethane"
       /\ files["ethane_sim.dcd"].frames = written["ethane_sim.dcd"]["ethane"]
       /\ files["ethane_sim.dcd"].frames > 0

\* C5: compute_distances(traj, [[0, 4]]) on the ethane trajectory returns
\* one scalar per saved frame: the array has one column, and as many rows as
\* frames were written to ethane_sim.dcd during the ethane production run.
C5_OneDistancePerFrame ==
  Executed(693) =>
    /\ bond_length.bound
    /\ bond_length.pairs = 1
    /\ bond_length.frames = traj.frames
    /\ bond_length.frames = written["ethane_sim.dcd"]["ethane"]
    /\ bond_length.frames > 0

\* A selection of k atoms of a molecule: k indices, each an atom of it.
Selects(list, k, mol) ==
  /\ list.bound
  /\ Len(list.items) = k
  /\ \A i \in 1..Len(list.items) : list.items[i] \in 0..(NumAtoms(mol) - 1)

\* C6: every atom selection the notebook defines has length 2 when it is for
\* a bond length and length 4 when it is for a torsion angle, and every index
\* in it is an atom of the loaded topology: bond_indices after its cell has
\* run, and phi_indices after its cell has run.
C6_SelectionsWellFormed ==
  /\ Executed(692) => Selects(bond_indices, 2, "ethane")
  /\ Executed(735) => Selects(phi_indices, 4, "ethane")

\* The operations of one molecule's pipeline, in the order of the stages:
\* load structure and force field; create system, integrator and simulation;
\* set positions; read energy; minimize; read energy; attach equilibration
\* reporter; set velocities; equilibration steps; clear reporters; attach
\* production reporters; production steps.
PipelineOrder ==
  << "PDBFile", "ForceField", "createSystem", "LangevinIntegrator",
     "Simulation", "setPositions", "getState", "minimizeEnergy", "getState",
     "StateDataReporter", "setVelocitiesToTemperature", "step", "clear",
     "StateDataReporter", "DCDReporter", "step" >>

\* The first operations of a molecule, up to the length of the pipeline.
PipelinePart(m) ==
  SubSeq(history[m], 1,
         IF Len(history[m]) < Len(PipelineOrder) THEN Len(history[m])
         ELSE Len(PipelineOrder))

\* C7: for each molecule the stages of the pipeline happen strictly in the
\* order of PipelineOrder, each finishing before the next begins (a step call
\* in progress is the next stage of the molecule it runs on, and nothing else
\* runs until it returns), and the trajectory file is loaded for analysis
\* only after the production step call that writes it has returned.
C7_PipelineOrder ==
  /\ \A m \in Molecules :
       PipelinePart(m) = SubSeq(PipelineOrder, 1, Len(PipelinePart(m)))
  /\ endStep # -1 =>
       /\ Cur.op = "step"
       /\ PipelineOrder[Len(history[simulation.topology]) + 1] = "step"
  /\ \A i \in DOMAIN history["ethane"] :
       history["ethane"][i] = "load" => i > Len(PipelineOrder)
  /\ traj.bound => Len(history["ethane"]) > Len(PipelineOrder)

\* Both pipelines have run to the end and the trajectory has been loaded.
C7_Witness ==
  /\ PipelinePart("ethane") = PipelineOrder
  /\ PipelinePart("butane") = PipelineOrder
  /\ Executed(624)
  /\ traj.bound

\* C8: the butane equilibration is a 10 ps simulation with output every
\* 0.5 ps: with the 2 fs timestep, step(5000) advances the simulated time by
\* exactly 10 ps (10,000 fs, from 0) and the interval-250 reporter prints a
\* line every 0.5 ps (500 fs): 20 lines, at the steps 250, 500, ..., 5000.
C8_ButaneEquilibration ==
  /\ ReportedEvery(539, 250, EquilColumns)
  /\ \A i \in 1..Len(LinesAt(539, "data")) :
       LinesAt(539, "data")[i].step * integrator.timestep = i * 500
  /\ pc = StmtAt(539) /\ endStep = -1 => simulation.time = 0
  /\ Stepping(539) =>
       simulation.time = simulation.currentStep * 2
  /\ pc = StmtAt(539) + 1 =>
       /\ simulation.currentStep = 5000
       /\ simulation.time = 10000
       /\ Len(LinesAt(539, "data")) = 20
  /\ Executed(539) => Len(LinesAt(539, "data")) = 20

\* The butane equilibration has just returned.
C8_Witness ==
  /\ pc = StmtAt(539) + 1
  /\ simulation.topology = "butane"
  /\ Len(LinesAt(539, "data")) = 20
  /\ simulation.time = 10000

LaterInCell(line) ==
  {l \in Lines : l \in ButaneCell /\ l > line}

\* The reporters of the simulation that write a file.
TrajectoryReporters(file) ==
  SelectSeq(simulation.reporters, LAMBDA r : r.kind = "dcd" /\ r.file = file)

\* C11: no statement of the notebook is called a second time, and once a
\* call of the butane cell has raised, no statement of that cell below it
\* has been or is called: the notebook has left the cell, no step() is in
\* progress, the step counter stays where it was when the call raised, and
\* if the call was not below the DCDReporter line no reporter on
\* butane_sim.dcd is attached and the file has not been created.
C11_NoRecoveryNoRetry ==
  /\ \A l \in Lines : calls[l] <= 1
  /\ raised.line # 0 =>
       /\ \A l \in LaterInCell(raised.line) : calls[l] = 0
       /\ calls[raised.line] = 1
       /\ pc >= AfterCell(StmtAt(raised.line))
       /\ endStep = -1
       /\ simulation.currentStep = raised.currentStep
       /\ raised.line <= 557 =>
            /\ TrajectoryReporters("butane_sim.dcd") = << >>
            /\ attached["butane_sim.dcd"] = {}
            /\ ~files["butane_sim.dcd"].exists
       /\ raised.line <= 539 => LinesAt(560, "data") = << >>
       /\ raised.line < 539 => LinesAt(539, "data") = << >>

\* The equilibration of butane raised after some of its rounds, and the
\* notebook has run to its end.
C11_Witness ==
  /\ raised.line = 539
  /\ raised.currentStep \in 1..(ButaneEquilSteps - 1)
  /\ Done

(***************************************************************************)
(* C12.  One molecule per pipeline.                                        *)
(***************************************************************************)
\* C12: where createSystem is called, pdb and forcefield are loaded and are
\* of the same molecule, so every System is built from a topology and a
\* force field of one molecule; where Simulation is constructed, the system
\* passed is the one built from the pdb whose topology is passed, so every
\* Simulation has the topology of its System; and where setPositions is
\* called, the positions are those of the pdb the Simulation was built from.
C12_OneMoleculePerPipeline ==
  /\ Running /\ Cur.op = "createSystem" =>
       pdb \in Molecules /\ forcefield = pdb
  /\ system # NoSystem =>
       system.topology \in Molecules /\ system.forcefield = system.topology
  /\ Running /\ Cur.op = "Simulation" => system.topology = pdb
  /\ simulation # NoSimulation =>
       /\ simulation.system.topology = simulation.topology
       /\ simulation.system.forcefield = simulation.topology
  /\ Running /\ Cur.op = "setPositions" => pdb = simulation.topology

\* The butane Simulation has been built from butane.pdb and
\* butane.gaff2.xml and given the positions of butane.pdb.
C12_Witness ==
  /\ pc = StmtAt(517) + 1
  /\ pdb = "butane" /\ forcefield = "butane"
  /\ simulation.topology = "butane"
  /\ simulation.system.forcefield = "butane"
  /\ simulation.positions = "pdb"

(***************************************************************************)
(* C13.  The ethane production run.                                        *)
(***************************************************************************)
\* C13: simulation.step(10000000) of the ethane production cell takes the
\* simulation exactly 10,000,000 steps on from where equilibration left it,
\* which is 20 ns (20,000,000 fs) of simulated time; its state lines are
\* 250,000 steps and 500 ps apart, one per 250,000 steps taken; one frame
\* has been written to ethane_sim.dcd per 100 steps (0.2 ps) taken; and
\* when it returns exactly 40 state lines have been printed.
C13_EthaneProductionRun ==
  LET L == LinesAt(388, "data")
  IN  /\ pc = StmtAt(388) /\ endStep = -1 =>
           /\ simulation.currentStep = 2500
           /\ simulation.time = 5000
           /\ L = << >>
      /\ \A i \in 2..Len(L) :
           /\ L[i].step - L[i - 1].step = 250000
           /\ L[i].time - L[i - 1].time = 500000
      /\ Stepping(388) =>
           /\ endStep - 2500 = 10000000
           /\ simulation.time - 5000 = 2 * (simulation.currentStep - 2500)
           /\ Len(L) = simulation.currentStep \div 250000
           /\ files["ethane_sim.dcd"].frames * 100
                = simulation.currentStep - 2500
      /\ pc = StmtAt(388) + 1 =>
           /\ simulation.currentStep - 2500 = 10000000
           /\ simulation.time - 5000 = 20000000
           /\ files["ethane_sim.dcd"].frames * 100 = 10000000
           /\ Len(L) = 40

\* The ethane production has just returned: 10,000,000 steps after
\* equilibration, with 40 lines printed.
C13_Witness ==
  /\ pc = StmtAt(388) + 1
  /\ simulation.topology = "ethane"
  /\ simulation.currentStep = 10002500
  /\ Len(LinesAt(388, "data")) = 40

(***************************************************************************)
(* C14.  The reporters of each phase.                                      *)
(***************************************************************************)
\* The reporters of one kind in the simulation's reporter list.
ReportersOf(kind) ==
  SelectSeq(simulation.reporters, LAMBDA r : r.kind = kind)

\* At the step() call on a line, before and while it runs, the reporter
\* list is: one StateDataReporter with these flags and this many
\* DCDReporters, and nothing else.
ReportersAt(line, flags, dcds) ==
  pc = StmtAt(line) =>
    /\ Len(ReportersOf("state")) = 1
    /\ ReportersOf("state")[1].flags = flags
    /\ Len(ReportersOf("dcd")) = dcds
    /\ Len(simulation.reporters) = 1 + dcds

\* No two console lines of the step() call on a line are for the same step.
OneLinePerStep(line) ==
  LET L == LinesAt(line, "data")
  IN  \A i, j \in 1..Len(L) : L[i].step = L[j].step => i = j

\* C14: throughout each equilibration run the reporter list holds exactly
\* one state reporter (the equilibration one) and nothing else; throughout
\* each production run it holds exactly one state reporter (the production
\* one) and one trajectory reporter; no step has two console lines; and
\* every console line of a production run has the production columns, not
\* the equilibration ones.
C14_ReportersPerPhase ==
  /\ ReportersAt(283, EquilFlags, 0)
  /\ ReportersAt(539, EquilFlags, 0)
  /\ ReportersAt(388, ProdFlags, 1)
  /\ ReportersAt(560, ProdFlags, 1)
  /\ \A line \in {283, 388, 539, 560} : OneLinePerStep(line)
  /\ \A line \in {388, 560} :
       /\ Len(LinesAt(line, "header")) <= 1
       /\ \A k \in {"header", "data"} :
            \A i \in 1..Len(LinesAt(line, k)) :
              /\ LinesAt(line, k)[i].cols = ProdColumns
              /\ LinesAt(line, k)[i].cols # EquilColumns

\* The butane production is running, after the equilibration printed its
\* lines, and has printed lines of its own.
C14_Witness ==
  /\ Stepping(560)
  /\ Len(LinesAt(539, "data")) = 20
  /\ Len(LinesAt(560, "data")) > 1
  /\ Len(simulation.reporters) = 2

(***************************************************************************)
(* C15.  The step counter and the clock are cumulative.                    *)
(***************************************************************************)
\* The production step() on a line starts at the step and time the
\* equilibration ended at, stops steps later, prints its first line at the
\* first multiple of its interval (so interval minus the equilibration
\* steps after it started, with the time of all steps since step 0), and
\* its last line is not for the step it returns at.
Cumulative(line, equilSteps, steps, interval) ==
  LET L == LinesAt(line, "data")
  IN  /\ pc = StmtAt(line) /\ endStep = -1 =>
           /\ simulation.currentStep = equilSteps
           /\ simulation.time = TimestepFs * equilSteps
      /\ Stepping(line) =>
           /\ endStep = equilSteps + steps
           /\ simulation.currentStep >= equilSteps
           /\ simulation.time = TimestepFs * simulation.currentStep
      /\ L # << >> =>
           /\ L[1].step = interval
           /\ L[1].time = TimestepFs * interval
      /\ pc = StmtAt(line) + 1 =>
           /\ simulation.currentStep = equilSteps + steps
           /\ simulation.time = TimestepFs * (equilSteps + steps)
           /\ L[Len(L)].step = steps
           /\ L[Len(L)].step < simulation.currentStep
           /\ simulation.currentStep % interval # 0

\* C15: the step counter and the clock run on from equilibration into
\* production.  The ethane production run starts at step 2,500, prints its
\* first line, Step 250000 and 500 ps, 247,500 steps later, and returns at
\* step 10,002,500, which is not a step a line was printed for; the butane
\* production run starts at step 5,000 and returns at step 20,005,000.
C15_CumulativeStepAndTime ==
  /\ Cumulative(388, 2500, 10000000, 250000)
  /\ Cumulative(560, 5000, 20000000, 500000)
  /\ LinesAt(388, "data") # << >> =>
       /\ LinesAt(388, "data")[1].step = 2500 + 247500
       /\ LinesAt(388, "data")[1].time = 500000
  /\ pc = StmtAt(388) + 1 => simulation.currentStep = 10002500
  /\ pc = StmtAt(560) + 1 => simulation.currentStep = 20005000

\* The ethane production has printed its first line and no other yet.
C15_Witness ==
  /\ Stepping(388)
  /\ Len(LinesAt(388, "data")) = 1
  /\ simulation.currentStep = 250000
  /\ simulation.time = 500000

(***************************************************************************)
(* C16.  Trajectory frames.                                                *)
(***************************************************************************)
\* The frames ever written to a file by the simulation of a molecule are
\* this many, and no frame was written to it by another simulation.
WrittenBy(file, mol, frames) ==
  \A m \in Molecules : written[file][m] = IF m = mol THEN frames ELSE 0

\* While the production step() on a line runs, the file holds one frame per
\* interval steps taken since it started, the last one of the step the
\* simulation is at; when it has returned, the file holds frames frames and
\* the last one is of the step the run ended at.
FramesOfRun(line, file, startStep, interval, frames) ==
  /\ Stepping(line) =>
       /\ files[file].frames * interval = simulation.currentStep - startStep
       /\ written[file][NamedAfter(file)] = files[file].frames
       /\ files[file].frames > 0 =>
            files[file].lastStep = simulation.currentStep
  /\ pc = StmtAt(line) + 1 =>
       /\ files[file].frames = frames
       /\ files[file].frames * interval = simulation.currentStep - startStep
       /\ files[file].lastStep = simulation.currentStep

\* C16: no frame is written to any file before the ethane production run
\* (through ethane's minimization and equilibration), and none between the
\* ethane production run and the butane production run (through butane's
\* minimization and equilibration); a production run writes one frame per
\* 100 of its steps, 100,000 to ethane_sim.dcd and 200,000 to
\* butane_sim.dcd, and the last frame is of the step the run ends at;
\* nothing is written after the runs.
C16_FramesOnlyInProduction ==
  /\ ~Executed(388) /\ ~Stepping(388) =>
       /\ WrittenBy("ethane_sim.dcd", "ethane", 0)
       /\ WrittenBy("butane_sim.dcd", "butane", 0)
       /\ \A f \in FileNames : files[f].frames = 0
  /\ FramesOfRun(388, "ethane_sim.dcd", 2500, 100, 100000)
  /\ Executed(388) => WrittenBy("ethane_sim.dcd", "ethane", 100000)
  /\ Executed(388) /\ ~Executed(560) /\ ~Stepping(560) =>
       /\ WrittenBy("butane_sim.dcd", "butane", 0)
       /\ files["butane_sim.dcd"].frames = 0
       /\ files["ethane_sim.dcd"].frames = 100000
  /\ FramesOfRun(560, "butane_sim.dcd", 5000, 100, 200000)
  /\ Stepping(560) => WrittenBy("ethane_sim.dcd", "ethane", 100000)
  /\ Executed(560) =>
       /\ WrittenBy("butane_sim.dcd", "butane", 200000)
       /\ files["butane_sim.dcd"].frames = 200000
       /\ files["butane_sim.dcd"].lastStep = 20005000

\* Both production runs have returned, each with its frames written.
C16_Witness ==
  /\ pc = StmtAt(560) + 1
  /\ written["ethane_sim.dcd"]["ethane"] = 100000
  /\ files["butane_sim.dcd"].frames = 200000
  /\ files["butane_sim.dcd"].lastStep = simulation.currentStep

=============================================================================
